---- MODULE Spec2Model ----
(***************************************************************************)
(* Manifold mint detector                                                  *)
(* packages/indexer/src/orderbook/mints/calldata/detector/manifold.ts      *)
(*                                                                         *)
(* extractByCollection / extractByTx (the adapter), refreshByCollection    *)
(* (reconciliation against the stored collection mints) and                *)
(* generateProofValue (the allow-list proof cache).                        *)
(*                                                                         *)
(* An optional value (a field that may be undefined) is <<>> when absent   *)
(* and <<v>> when present.  The outcome of a contract read or of an        *)
(* off-chain request is [ok |-> FALSE] when it throws and                  *)
(* [ok |-> TRUE, val |-> v] when it resolves to v.                          *)
(***************************************************************************)
EXTENDS Integers, Sequences, FiniteSets, TLC

VARIABLES
    chain,      \* what the contract reads and the metadata service answer
    store,      \* the stored collection mints, in insertion order
    op,         \* the last adapter / reconciliation call: arguments and outcome
    prev,       \* the store as the previous refreshByCollection left it
    now,        \* the clock of the cache, in seconds
    cache,      \* the redis entries of the proof cache: key -> [val, exp]
    calls,      \* the generateProofValue calls in flight or returned
    fetches     \* number of upstream merkleInfo requests sent so far

vars == <<chain, store, op, prev, now, cache, calls, fetches>>

None == <<>>
Some(v) == <<v>>
IsSome(o) == o # <<>>

Fail == [ok |-> FALSE]
Ok(v) == [ok |-> TRUE, val |-> v]

\* JavaScript truthiness of an optional string: undefined and "" are falsy.
Truthy(o) == IsSome(o) /\ o[1] # ""

(***************************************************************************)
(* Bounds of the model.                                                    *)
(***************************************************************************)
\* instance ids / claim indices on chain are 1..MaxInstanceId (0: no claim)
MaxInstanceId == 2
\* token ids on chain are 1..MaxTokenId
MaxTokenId == 2
\* the stored collection mints the model keeps
MaxStored == 3

(***************************************************************************)
(* Program constants.                                                      *)
(***************************************************************************)
STANDARD == "manifold"
\* @ethersproject/constants HashZero
HashZero == "0x0000"
\* Sdk.Common.Addresses.Eth[config.chainId]: the native asset, lower case
Eth == "0x0000000000"
\* redis.set(cacheKey, ..., "EX", 3600)
CacheTtl == 3600

Collection == "0xc0"

\* Addresses as the chain or a transaction spells them (checksummed or not)
\* and String.prototype.toLowerCase on them.
Addresses == {"0xe1", "0xE1", "0xe2", "0xE2"}
toLowerCase(a) ==
    CASE a = "0xE1" -> "0xe1"
      [] a = "0xE2" -> "0xe2"
      [] OTHER -> a
Extensions == {toLowerCase(a) : a \in Addresses}

\* An ERC20 payment token (not the native asset)
Erc20Token == "0xdai"

InstanceIds == 1..MaxInstanceId
ChainTokenIds == 1..MaxTokenId

\* BigNumber.from(string): the decimal strings ethers accepts as a uint.
\* Anything else (undefined, "", a non-numeric string) throws on encoding.
Uints == 0..(MaxInstanceId + MaxTokenId)
ParseUint(o) ==
    IF IsSome(o) /\ \E n \in Uints : ToString(n) = o[1]
    THEN Ok(CHOOSE n \in Uints : ToString(n) = o[1])
    ELSE Fail

(***************************************************************************)
(* Chain state.  A claim carries the fields of the on-chain struct the     *)
(* adapter reads; the per-token struct and the newer claim-index shape     *)
(* have erc20, the older claim-index shape has not.                        *)
(***************************************************************************)
Claim(root, wmax, tmax, sd, ed, cost, erc20) ==
    [merkleRoot |-> root, walletMax |-> wmax, totalMax |-> tmax,
     startDate |-> sd, endDate |-> ed, cost |-> cost, erc20 |-> erc20]

\* The struct of an unset mapping entry: every field zero.
ZeroClaim == Claim(HashZero, 0, 0, 0, 0, 0, Eth)

\* The older shape: the same struct read without its last field.
OlderShape(cl) == [f \in (DOMAIN cl) \ {"erc20"} |-> cl[f]]

MerkleRoot == "0xabcd"

\* (walletMax, totalMax, startDate, endDate) of the claims of the model
Limits == { <<0, 0, 0, 0>>, <<3, 0, 0, 1700000000>>,
            <<0, 10, 1600000000, 0>>, <<3, 10, 1600000000, 1700000000>> }

Claims ==
    { Claim(root, l[1], l[2], l[3], l[4], 100, Eth) :
        root \in {HashZero, MerkleRoot}, l \in Limits }
    \cup { Claim(root, 3, 10, 0, 0, 100, Erc20Token) : root \in {HashZero, MerkleRoot} }

\* The plain claims: used where the limits do not matter.
PlainClaims ==
    { Claim(root, 3, 10, 0, 0, 100, erc20) :
        root \in {HashZero, MerkleRoot}, erc20 \in {Eth, Erc20Token} }

(***************************************************************************)
(* A contract, as the adapter sees it: the outcome of each read call.      *)
(*   tok[n]  getClaimForToken(collection, n)                               *)
(*   v1[i]   getClaim(collection, i) decoded with the older shape          *)
(*   v2[i]   getClaim(collection, i) decoded with the newer shape          *)
(*   fee     MINT_FEE()          feeM    MINT_FEE_MERKLE()                 *)
(***************************************************************************)
Contract(tok, v1, v2, fee, feeM) ==
    [tok |-> tok, v1 |-> v1, v2 |-> v2, fee |-> fee, feeM |-> feeM]

AllFail == [n \in Uints |-> Fail]

\* An address that is no claim extension: every read reverts.
NoContract == Contract(AllFail, AllFail, AllFail, Fail, Fail)

\* A per-token (ERC1155) claim extension holding claim cl as instance id for
\* token t.  A token without a claim reads as instance 0 with a zero struct;
\* the struct does not decode under the claim-index shapes.
Erc1155(t, id, cl, fee, feeM) ==
    Contract([n \in Uints |-> IF n = t THEN Ok([instanceId |-> id, claim |-> cl])
                                       ELSE Ok([instanceId |-> 0, claim |-> ZeroClaim])],
             AllFail, AllFail, fee, feeM)

\* Two tokens with a claim each.
Erc1155Two(t1, id1, cl1, t2, id2, cl2, fee, feeM) ==
    Contract([n \in Uints |-> IF n = t1 THEN Ok([instanceId |-> id1, claim |-> cl1])
                              ELSE IF n = t2 THEN Ok([instanceId |-> id2, claim |-> cl2])
                              ELSE Ok([instanceId |-> 0, claim |-> ZeroClaim])],
             AllFail, AllFail, fee, feeM)

\* An older claim-index (ERC721) extension: claim cl at index id, no fee
\* functions; getClaim reverts on an index that was never initialised and
\* its result is too short for the newer shape.
LazyV1(id, cl) ==
    Contract(AllFail,
             [n \in Uints |-> IF n = id THEN Ok(OlderShape(cl)) ELSE Fail],
             AllFail, Fail, Fail)

\* A newer claim-index extension: the result decodes under both shapes.
LazyV2(id, cl, fee, feeM) ==
    Contract(AllFail,
             [n \in Uints |-> IF n = id THEN Ok(OlderShape(cl)) ELSE Fail],
             [n \in Uints |-> IF n = id THEN Ok(cl) ELSE Fail],
             fee, feeM)

\* The fee reads of the model: both answer (flat fee 5, merkle fee 7), or one
\* of them fails.
FeesOk == <<Ok(5), Ok(7)>>
FeeOutcomes == { FeesOk, <<Fail, Ok(7)>>, <<Ok(5), Fail>> }

\* The contracts of the model with one claim, every claim of Claims.
FullContracts ==
    {NoContract}
    \cup { Erc1155(t, id, cl, FeesOk[1], FeesOk[2]) :
            t \in ChainTokenIds, id \in InstanceIds, cl \in Claims }
    \cup { Erc1155(1, 1, cl, fo[1], fo[2]) : cl \in PlainClaims, fo \in FeeOutcomes }
    \cup { LazyV1(id, cl) : id \in InstanceIds, cl \in Claims }
    \cup { LazyV2(id, cl, FeesOk[1], FeesOk[2]) : id \in InstanceIds, cl \in Claims }
    \cup { LazyV2(1, cl, fo[1], fo[2]) : cl \in PlainClaims, fo \in FeeOutcomes }

\* A few contracts for the second extension.
BasicContracts ==
    { NoContract,
      Erc1155(1, 2, Claim(HashZero, 0, 0, 0, 0, 100, Eth), FeesOk[1], FeesOk[2]),
      LazyV2(1, Claim(HashZero, 0, 0, 0, 0, 100, Eth), FeesOk[1], FeesOk[2]) }

\* The off-chain instance data: the merkle tree id of instance id (a string,
\* as it stands in the request URL).
TreeIdOf(id) == "tree-" \o id

(***************************************************************************)
(* chain = [exts   getExtensions() of the collection,                      *)
(*          c      the contract at each (lower case) extension address,    *)
(*          meta   whether the instance data service answers]              *)
(***************************************************************************)
getExtensions(ch) == ch.exts
ContractAt(ch, a) == ch.c[toLowerCase(a)]
fetchMetadata(ch, id) == IF ch.meta THEN Ok(TreeIdOf(id)) ELSE Fail

\* What the Status Resolver answers for a record.
getStatus(ch, cm) == ch.status

(***************************************************************************)
(* The canonical record (CollectionMint) and its pieces.                   *)
(***************************************************************************)
\* bn(x) of a decimal string
DecimalRange == 0..120
bn(s) == CHOOSE n \in DecimalRange : ToString(n) = s

\* `${x}` of an optional string inside a template literal
Interpolate(o) == IF IsSome(o) THEN o[1] ELSE "undefined"

\* One slot of details.tx.data.params
Param(kind, abiType, abiValue) ==
    [kind |-> kind, abiType |-> abiType, abiValue |-> abiValue]

\* Mutant: the public template with the proof slots left to fill time.
PublicTxOpenSlots(extension, id) ==
    [to |-> toLowerCase(extension),
     signature |-> "0x26c858a4",
     params |-> << Param("contract", "address", None),
                   Param("unknown", "uint256", id),
                   Param("quantity", "uint16", None),
                   Param("allowlist", "uint32[]", None),
                   Param("allowlist", "bytes32[][]", None),
                   Param("recipient", "address", None) >>]

\* details.tx of a public stage: instance id fixed, empty indices and proofs
PublicTx(extension, id) ==
    [to |-> toLowerCase(extension),
     signature |-> "0x26c858a4",
     params |-> << Param("contract", "address", None),
                   Param("unknown", "uint256", id),
                   Param("quantity", "uint16", None),
                   Param("unknown", "uint32[]", Some("[]")),
                   Param("unknown", "bytes32[][]", Some("[]")),
                   Param("recipient", "address", None) >>]

\* details.tx of an allow-list stage: indices and proofs filled at fill time
AllowlistTx(extension, id) ==
    [to |-> toLowerCase(extension),
     signature |-> "0x26c858a4",
     params |-> << Param("contract", "address", None),
                   Param("unknown", "uint256", id),
                   Param("quantity", "uint16", None),
                   Param("allowlist", "uint32[]", None),
                   Param("allowlist", "bytes32[][]", None),
                   Param("recipient", "address", None) >>]

\* Mutant: the extension left out of the stage
StageWithoutExtension(extension, id) == "claim-" \o Interpolate(id)

\* `claim-${extension.toLowerCase()}-${id}`
Stage(extension, id) == "claim-" \o toLowerCase(extension) \o "-" \o Interpolate(id)

\* toSafeTimestamp of helpers: a set bound surfaces as the same number,
\* zero as absent.
toSafeTimestamp(v) == IF v = 0 THEN None ELSE Some(v)

\* Mutant: no test for zero.
MaxOfUnchecked(x) == Some(ToString(x))

\* bn(x).gt(0) ? x.toString() : undefined
MaxOf(x) == IF x > 0 THEN Some(ToString(x)) ELSE None
\* claim.startDate ? toSafeTimestamp(claim.startDate) : undefined
StartTimeOf(claim) == IF claim.startDate # 0 THEN toSafeTimestamp(claim.startDate) ELSE None
\* Mutant: the end time taken from the start date.
EndTimeOfStartDate(claim) ==
    IF claim.startDate # 0 THEN toSafeTimestamp(claim.startDate) ELSE None

\* claim.endDate ? toSafeTimestamp(claim.endDate) : undefined
EndTimeOf(claim) == IF claim.endDate # 0 THEN toSafeTimestamp(claim.endDate) ELSE None

CollectionMint(collection, stage, kind, tx, info, price, tokenId, claim, allowlistId) ==
    [collection |-> collection,
     contract |-> collection,
     stage |-> stage,
     kind |-> kind,
     status |-> "open",
     statusReason |-> None,
     standard |-> STANDARD,
     details |-> [tx |-> tx, info |-> info],
     currency |-> Eth,
     price |-> price,
     tokenId |-> tokenId,
     maxMintsPerWallet |-> MaxOf(claim.walletMax),
     maxSupply |-> MaxOf(claim.totalMax),
     startTime |-> StartTimeOf(claim),
     endTime |-> EndTimeOf(claim),
     allowlistId |-> allowlistId]

\* Mutant: the fee left out of the price.
TokenPublicMintBareCost(collection, tokenId, extension, instanceId, claim, fee) ==
    CollectionMint(collection, Stage(extension, Some(instanceId)), "public",
                   PublicTx(extension, Some(instanceId)), None,
                   ToString(claim.cost), Some(tokenId), claim, None)

\* The per-token variant, public sale
TokenPublicMint(collection, tokenId, extension, instanceId, claim, fee) ==
    CollectionMint(collection, Stage(extension, Some(instanceId)), "public",
                   PublicTx(extension, Some(instanceId)), None,
                   ToString(claim.cost + fee), Some(tokenId), claim, None)

\* The per-token variant, allow-list sale
TokenAllowlistMint(collection, tokenId, extension, instanceId, claim, fee, merkleTreeId) ==
    CollectionMint(collection, Stage(extension, Some(instanceId)), "allowlist",
                   AllowlistTx(extension, Some(instanceId)),
                   Some([merkleTreeId |-> merkleTreeId]),
                   ToString(claim.cost + fee), Some(tokenId), claim,
                   Some(claim.merkleRoot))

\* The claim-index variant, public sale
IndexPublicMint(collection, tokenId, extension, claimIndex, claimConfig) ==
    CollectionMint(collection, Stage(extension, claimIndex), "public",
                   PublicTx(extension, claimIndex), None,
                   ToString(bn(claimConfig.cost) + bn(claimConfig.mintFee)),
                   Some(tokenId), claimConfig, None)

\* Mutant: the allow-list record of the claim-index variant without allowlistId
IndexAllowlistMintNoRoot(collection, tokenId, extension, claimIndex, claimConfig, merkleTreeId) ==
    CollectionMint(collection, Stage(extension, claimIndex), "allowlist",
                   AllowlistTx(extension, claimIndex),
                   Some([merkleTreeId |-> merkleTreeId]),
                   ToString(bn(claimConfig.cost) + bn(claimConfig.mintFeeMerkle)),
                   None, claimConfig, None)

\* The claim-index variant, allow-list sale: the record has no tokenId
IndexAllowlistMint(collection, tokenId, extension, claimIndex, claimConfig, merkleTreeId) ==
    CollectionMint(collection, Stage(extension, claimIndex), "allowlist",
                   AllowlistTx(extension, claimIndex),
                   Some([merkleTreeId |-> merkleTreeId]),
                   ToString(bn(claimConfig.cost) + bn(claimConfig.mintFeeMerkle)),
                   None, claimConfig, Some(claimConfig.merkleRoot))

(***************************************************************************)
(* extractByCollection.  Each step returns                                 *)
(*   out   "return" (a record is returned), "throw" (the call rejects) or  *)
(*         "next" (fall through to the next variant / extension),          *)
(*   rec   the record returned, io the requests sent, in order,            *)
(*   via   which read the record was built from.                           *)
(***************************************************************************)
Io(call, to) == [call |-> call, to |-> to]

Step(out, rec, io, via) == [out |-> out, rec |-> rec, io |-> io, via |-> via]

Via(variant, extension, n) ==
    Some([variant |-> variant, extension |-> toLowerCase(extension), n |-> n])

\* Mutant: the comparison inverted.
IsPublicSaleInverted(claim) == claim.merkleRoot # HashZero

\* claim.merkleRoot === HashZero: a public sale; anything else an allow-list
IsPublicSale(claim) == claim.merkleRoot = HashZero

\* Mutant: the per-token attempt made to depend on both fee reads.
TryTokenJointReads(ch, collection, tokenId, extension) ==
    LET c == ContractAt(ch, extension)
        n == ParseUint(Some(tokenId))
        result == IF n.ok THEN c.tok[n.val] ELSE Fail
        e == toLowerCase(extension)
        io1 == IF n.ok
               THEN <<Io("getClaimForToken", e), Io("MINT_FEE", e), Io("MINT_FEE_MERKLE", e)>>
               ELSE <<>>
    IN  IF ~result.ok \/ ~c.fee.ok \/ ~c.feeM.ok THEN Step("next", None, io1, None)
        ELSE
        LET instanceId == ToString(result.val.instanceId)
            claim == result.val.claim
            via == Via("token", extension, n.val)
        IN  IF instanceId # "0" /\ toLowerCase(claim.erc20) = Eth
            THEN IF IsPublicSale(claim)
                 THEN Step("return",
                           Some(TokenPublicMint(collection, tokenId, extension,
                                                instanceId, claim, c.fee.val)),
                           io1, via)
                 ELSE LET io3 == io1 \o <<Io("fetchMetadata", instanceId)>>
                          data == fetchMetadata(ch, instanceId)
                      IN  IF ~data.ok THEN Step("next", None, io3, None)
                          ELSE Step("return",
                                    Some(TokenAllowlistMint(collection, tokenId, extension,
                                                            instanceId, claim, c.feeM.val,
                                                            data.val)),
                                    io3, via)
            ELSE Step("next", None, io1, None)

\* The per-token (ERC1155) variant: one try block; whatever throws inside it
\* (a read, a fee read, the instance data request) is logged and skipped.
TryToken(ch, collection, tokenId, extension) ==
    LET c == ContractAt(ch, extension)
        n == ParseUint(Some(tokenId))
        result == IF n.ok THEN c.tok[n.val] ELSE Fail
        io1 == IF n.ok THEN <<Io("getClaimForToken", toLowerCase(extension))>> ELSE <<>>
    IN  IF ~result.ok THEN Step("next", None, io1, None)
        ELSE
        LET instanceId == ToString(result.val.instanceId)
            claim == result.val.claim
            via == Via("token", extension, n.val)
        IN  IF instanceId # "0" /\ toLowerCase(claim.erc20) = Eth
            THEN IF IsPublicSale(claim)
                 THEN LET io2 == io1 \o <<Io("MINT_FEE", toLowerCase(extension))>>
                      IN  IF ~c.fee.ok THEN Step("next", None, io2, None)
                          ELSE Step("return",
                                    Some(TokenPublicMint(collection, tokenId, extension,
                                                         instanceId, claim, c.fee.val)),
                                    io2, via)
                 ELSE LET io2 == io1 \o <<Io("MINT_FEE_MERKLE", toLowerCase(extension))>>
                          io3 == io2 \o <<Io("fetchMetadata", instanceId)>>
                          data == fetchMetadata(ch, instanceId)
                      IN  IF ~c.feeM.ok THEN Step("next", None, io2, None)
                          ELSE IF ~data.ok THEN Step("next", None, io3, None)
                          ELSE Step("return",
                                    Some(TokenAllowlistMint(collection, tokenId, extension,
                                                            instanceId, claim, c.feeM.val,
                                                            data.val)),
                                    io3, via)
            ELSE Step("next", None, io1, None)

\* claimConfig as built from the older shape: no erc20 field, no fees
ConfigV1(claim) ==
    [totalMax |-> claim.totalMax, walletMax |-> claim.walletMax,
     startDate |-> claim.startDate, endDate |-> claim.endDate,
     merkleRoot |-> claim.merkleRoot, cost |-> ToString(claim.cost),
     erc20 |-> Eth, mintFee |-> "0", mintFeeMerkle |-> "0"]

\* claimConfig as built from the newer shape and the two fee constants
ConfigV2(claim, mintFee, mintFeeMerkle) ==
    [totalMax |-> claim.totalMax, walletMax |-> claim.walletMax,
     startDate |-> claim.startDate, endDate |-> claim.endDate,
     merkleRoot |-> claim.merkleRoot, cost |-> ToString(claim.cost),
     erc20 |-> claim.erc20, mintFee |-> ToString(mintFee),
     mintFeeMerkle |-> ToString(mintFeeMerkle)]

\* Mutant: the older shape's result kept when both shapes succeed.
ShapeUsedOlderFirst(c, claimIndex) ==
    LET i == ParseUint(claimIndex)
        v1ok == Truthy(claimIndex) /\ i.ok /\ c.v1[i.val].ok
        v2ok == i.ok /\ c.v2[i.val].ok /\ c.fee.ok /\ c.feeM.ok
    IN  IF v1ok THEN "v1" ELSE IF v2ok THEN "v2" ELSE "none"

\* Which shape the claimConfig comes from: the older one is read only with a
\* claimIndex, the newer one always and it wins when its three reads succeed.
\* A claimIndex that does not encode as uint256 makes getClaim throw before
\* any request is sent.
ShapeUsed(c, claimIndex) ==
    LET i == ParseUint(claimIndex)
        v1ok == Truthy(claimIndex) /\ i.ok /\ c.v1[i.val].ok
        v2ok == i.ok /\ c.v2[i.val].ok /\ c.fee.ok /\ c.feeM.ok
    IN  IF v2ok THEN "v2" ELSE IF v1ok THEN "v1" ELSE "none"

\* The claim-index (ERC721) variant.  The instance data request of an
\* allow-list sale is outside any try block: its failure rejects the call.
TryIndex(ch, collection, tokenId, extension, claimIndex) ==
    LET c == ContractAt(ch, extension)
        e == toLowerCase(extension)
        i == ParseUint(claimIndex)
        ioV1 == IF Truthy(claimIndex) /\ i.ok THEN <<Io("getClaim", e)>> ELSE <<>>
        ioV2 == (IF i.ok THEN <<Io("getClaim", e)>> ELSE <<>>)
                \o <<Io("MINT_FEE", e), Io("MINT_FEE_MERKLE", e)>>
        shape == ShapeUsed(c, claimIndex)
        claimConfig == IF shape = "v2"
                       THEN ConfigV2(c.v2[i.val].val, c.fee.val, c.feeM.val)
                       ELSE ConfigV1(c.v1[i.val].val)
        io1 == ioV1 \o ioV2
    IN  IF shape = "none" THEN Step("next", None, io1, None)
        ELSE IF IsPublicSale(claimConfig)
        THEN Step("return",
                  Some(IndexPublicMint(collection, tokenId, extension, claimIndex,
                                       claimConfig)),
                  io1, Via(shape, extension, i.val))
        ELSE LET io2 == io1 \o <<Io("fetchMetadata", Interpolate(claimIndex))>>
                 data == fetchMetadata(ch, Interpolate(claimIndex))
             IN  IF ~data.ok THEN Step("throw", None, io2, None)
                 ELSE Step("return",
                           Some(IndexAllowlistMint(collection, tokenId, extension,
                                                   claimIndex, claimConfig, data.val)),
                           io2, Via(shape, extension, i.val))

\* step x with the requests io sent before it
After(io, x) == Step(x.out, x.rec, io \o x.io, x.via)

\* The claim-index variant runs when the per-token variant (outcome t) did
\* not return.
ThenTryIndex(ch, collection, tokenId, extension, claimIndex, t) ==
    IF t.out = "return" THEN t
    ELSE After(t.io, TryIndex(ch, collection, tokenId, extension, claimIndex))

\* One extension: the per-token variant, then the claim-index variant.
TryExtension(ch, collection, tokenId, extension, claimIndex) ==
    ThenTryIndex(ch, collection, tokenId, extension, claimIndex,
                 TryToken(ch, collection, tokenId, extension))

\* The outcome of a call: err (it rejected), recs (what it returned), io, via
Outcome(err, recs, io, via) == [err |-> err, recs |-> recs, io |-> io, via |-> via]

\* Lines 476-483: every record of `results` gets the resolver's status.
UpdateStatus(ch, results) ==
    [k \in DOMAIN results |->
        [results[k] EXCEPT !.status = getStatus(ch, results[k]).status,
                           !.statusReason = getStatus(ch, results[k]).reason]]

\* The loop over the extensions.  A match returns at once from inside the
\* loop; nothing is ever pushed to `results`.
RECURSIVE ScanExtensions(_, _, _, _, _, _, _)
\* Mutant: the requests of an extension put ahead of those before it.
ScanNextAhead(ch, collection, tokenId, claimIndex, extensions, results, io, x) ==
    CASE x.out = "return" -> Outcome(FALSE, <<x.rec[1]>>, x.io \o io, x.via)
      [] x.out = "throw" -> Outcome(TRUE, <<>>, x.io \o io, None)
      [] OTHER -> ScanExtensions(ch, collection, tokenId, claimIndex,
                                 Tail(extensions), results, x.io \o io)

\* x is the outcome of the first extension of `extensions`.
ScanNext(ch, collection, tokenId, claimIndex, extensions, results, io, x) ==
    CASE x.out = "return" -> Outcome(FALSE, <<x.rec[1]>>, io \o x.io, x.via)
      [] x.out = "throw" -> Outcome(TRUE, <<>>, io \o x.io, None)
      [] OTHER -> ScanExtensions(ch, collection, tokenId, claimIndex,
                                 Tail(extensions), results, io \o x.io)

ScanExtensions(ch, collection, tokenId, claimIndex, extensions, results, io) ==
    IF extensions = <<>>
    THEN Outcome(FALSE, UpdateStatus(ch, results), io, None)
    ELSE ScanNext(ch, collection, tokenId, claimIndex, extensions, results, io,
                  TryExtension(ch, collection, tokenId, Head(extensions), claimIndex))

extractByCollection(ch, collection, tokenId, extension, claimIndex) ==
    IF Truthy(extension)
    THEN ScanExtensions(ch, collection, tokenId, claimIndex, <<extension[1]>>, <<>>, <<>>)
    ELSE LET extensions == getExtensions(ch)
             io == <<Io("getExtensions", collection)>>
         IN  IF ~extensions.ok THEN Outcome(TRUE, <<>>, io, None)
             ELSE ScanExtensions(ch, collection, tokenId, claimIndex, extensions.val,
                                 <<>>, io)

(***************************************************************************)
(* extractByTx.  tx.data is its selector (the first four bytes) and the    *)
(* 32-byte words after it.                                                 *)
(***************************************************************************)
MintSelector == "0xfa2b068f"
MintBatchSelector == "0x26c858a4"

\* The heads of mint(address,uint256,uint32,bytes32[],address) and of
\* mintBatch(address,uint256,uint16,uint32[],bytes32[][],address)
HeadWords(name) == IF name = "mint" THEN 5 ELSE 6

\* Mutant: the third argument (mintIndex / mintCount) taken for the instance id.
DecodeThirdWord(name, data) ==
    IF Len(data.words) >= HeadWords(name) THEN Ok(ToString(data.words[3])) ELSE Fail

\* Mutant: the words that are there are decoded, however short the data.
DecodeWordsPresent(name, data) ==
    IF Len(data.words) >= 2 THEN Ok(ToString(data.words[2])) ELSE Fail

\* decodeFunctionData(name, tx.data).instanceId.toString(); data that is too
\* short for the head of the signature does not decode.
DecodeInstanceId(name, data) ==
    IF Len(data.words) >= HeadWords(name) THEN Ok(ToString(data.words[2])) ELSE Fail

\* Mutant: no selector check.
AnySelector(data) == TRUE

\* [mint, mintBatch].some((bytes4) => tx.data.startsWith(bytes4))
IsKnownSelector(data) == data.selector \in {MintSelector, MintBatchSelector}

extractByTx(ch, collection, tokenId, tx) ==
    IF IsKnownSelector(tx.data)
    THEN LET name == IF tx.data.selector = MintSelector THEN "mint" ELSE "mintBatch"
             decoded == DecodeInstanceId(name, tx.data)
             instanceId == IF decoded.ok THEN Some(decoded.val) ELSE None
         IN  extractByCollection(ch, collection, tokenId, Some(tx.to), instanceId)
    ELSE Outcome(FALSE, <<>>, <<>>, None)

(***************************************************************************)
(* The adapter as a state machine: the chain state is drawn at random and  *)
(* every call records its arguments and its outcome in op.                 *)
(***************************************************************************)
TokenIdArgs == {ToString(t) : t \in ChainTokenIds}
ExtensionArgs == {None, Some("0xE1"), Some("0xe2")}
ClaimIndexArgs == {None} \cup {Some(ToString(i)) : i \in InstanceIds}

\* Transaction inputs: well-formed mint and mintBatch calls, truncated ones,
\* another function's call and empty data.
TxDatas ==
    { [selector |-> MintSelector, words |-> <<7, i, 0, 160, 7>>] : i \in InstanceIds }
    \cup { [selector |-> MintBatchSelector, words |-> <<7, i, 1, 192, 224, 7>>] :
            i \in InstanceIds }
    \cup { [selector |-> MintSelector, words |-> <<7>>],
           [selector |-> MintBatchSelector, words |-> <<7, 1, 1, 192, 224>>],
           [selector |-> "0xa9059cbb", words |-> <<7, 1, 0, 160, 7>>],
           [selector |-> "0x", words |-> <<>>] }
Txs == { [to |-> to, data |-> d] : to \in {"0xE1", "0xe2"}, d \in TxDatas }

Call(name, tokenId, extension, claimIndex, tx, res) ==
    [name |-> name, tokenId |-> tokenId, extension |-> extension,
     claimIndex |-> claimIndex, tx |-> tx, res |-> res]

NoCall == Call("none", "", None, None, None, Outcome(FALSE, <<>>, <<>>, None))

StatusOpen == [status |-> "open", reason |-> None]

Chain(exts, c, meta) == [exts |-> exts, c |-> c, meta |-> meta, status |-> StatusOpen]

\* The chains of the adapter's checks: the first extension holds any
\* contract of the model, the second one of a few.
ExtractOpenChains ==
    { Chain(exts, [a \in Extensions |-> IF a = "0xe1" THEN c1 ELSE c2], meta) :
        exts \in {Fail, Ok(<<"0xE1">>), Ok(<<"0xE1", "0xe2">>)},
        c1 \in FullContracts, c2 \in BasicContracts, meta \in BOOLEAN }

\* What the status resolver answers for a stage that is not available now
StatusClosed == [status |-> "closed", reason |-> Some("not-yet-started")]

\* The same chains, and those of one extension with the other answer of
\* the status resolver
ExtractChains ==
    ExtractOpenChains
    \cup { [ch EXCEPT !.status = StatusClosed] :
             ch \in { x \in ExtractOpenChains : x.meta /\ x.exts = Ok(<<"0xE1">>) } }

NoCache == [k \in {} |-> None]

InitRest ==
    /\ store = <<>>
    /\ op = NoCall
    /\ prev = None
    /\ now = 0
    /\ cache = NoCache
    /\ calls = <<>>
    /\ fetches = 0

InitExtract == chain \in ExtractChains /\ InitRest

\* One call at a time: a call starts when the outcome of the previous one
\* has been taken (Return).
CallExtractByCollection ==
    /\ op = NoCall
    /\ \E tokenId \in TokenIdArgs, extension \in ExtensionArgs, claimIndex \in ClaimIndexArgs :
        /\ op' = Call("extractByCollection", tokenId, extension, claimIndex, None,
                      extractByCollection(chain, Collection, tokenId, extension, claimIndex))
        /\ UNCHANGED <<chain, store, prev, now, cache, calls, fetches>>

CallExtractByTx ==
    /\ op = NoCall
    /\ \E tokenId \in TokenIdArgs, tx \in Txs :
        /\ op' = Call("extractByTx", tokenId, None, None, Some(tx),
                      extractByTx(chain, Collection, tokenId, tx))
        /\ UNCHANGED <<chain, store, prev, now, cache, calls, fetches>>

\* The caller takes the outcome of the call.
Return ==
    /\ op # NoCall
    /\ op' = NoCall
    /\ UNCHANGED <<chain, store, prev, now, cache, calls, fetches>>

\* The caller keeps the record a call returned, with the variant it came
\* from, to compare it with the record of a later call.
KeepRecord ==
    /\ op.name \in {"extractByCollection", "extractByTx"}
    /\ ~op.res.err
    /\ op.res.recs # <<>>
    /\ prev' = Some([rec |-> op.res.recs[1], via |-> op.res.via[1]])
    /\ op' = NoCall
    /\ UNCHANGED <<chain, store, now, cache, calls, fetches>>

NextExtract == CallExtractByCollection \/ CallExtractByTx \/ Return \/ KeepRecord

SpecExtract == InitExtract /\ [][NextExtract]_vars

(***************************************************************************)
(* The stored collection mints and refreshByCollection.                    *)
(***************************************************************************)
\* The natural key of a stored record: (collection, stage, tokenId)
SameMint(a, b) ==
    /\ a.collection = b.collection
    /\ a.stage = b.stage
    /\ a.tokenId = b.tokenId

\* getCollectionMints(collection, { standard: STANDARD })
getCollectionMints(st, collection) ==
    SelectSeq(st, LAMBDA cm : cm.collection = collection /\ cm.standard = STANDARD)

\* simulateAndUpsertCollectionMint: the record replaces the stored record of
\* the same key, or is added.
simulateAndUpsertCollectionMint(st, cm) ==
    IF \E k \in DOMAIN st : SameMint(st[k], cm)
    THEN [k \in DOMAIN st |-> IF SameMint(st[k], cm) THEN cm ELSE st[k]]
    ELSE Append(st, cm)

\* One write of a refresh: the record passed, whether it is a closing
\* write, and the iteration (1, 2, ...) of the loop that issued it.
Write(cm, closing, iter) == [cm |-> cm, closing |-> closing, iter |-> iter]

\* The state a refresh threads through its loops
Progress(st, writes, extracted, err) ==
    [store |-> st, writes |-> writes, extracted |-> extracted, err |-> err]

\* for (const collectionMint of latestCollectionMints) await upsert
RECURSIVE UpsertLatest(_, _, _)
UpsertLatest(acc, latest, iter) ==
    IF latest = <<>> THEN acc
    ELSE UpsertLatest(
            [acc EXCEPT !.store = simulateAndUpsertCollectionMint(acc.store, Head(latest)),
                        !.writes = Append(acc.writes, Write(Head(latest), FALSE, iter))],
            Tail(latest), iter)

\* !latestCollectionMints.find((latest) => same collection, stage and tokenId)
NotReturned(latest, existing) ==
    ~\E k \in DOMAIN latest : SameMint(latest[k], existing)

\* Mutant: the closing write also sets a reason.
ClosedWithReason(existing) ==
    [existing EXCEPT !.status = "closed", !.statusReason = Some("not-available")]

\* { ...existing, status: "closed" }
Closed(existing) == [existing EXCEPT !.status = "closed"]

\* for (const existing of existingCollectionMints) close what was not returned
RECURSIVE CloseMissing(_, _, _, _)
CloseMissing(acc, existingLeft, latest, iter) ==
    IF existingLeft = <<>> THEN acc
    ELSE LET existing == Head(existingLeft)
             closed == Closed(existing)
         IN  IF NotReturned(latest, existing)
             THEN CloseMissing(
                    [acc EXCEPT !.store = simulateAndUpsertCollectionMint(acc.store, closed),
                                !.writes = Append(acc.writes, Write(closed, TRUE, iter))],
                    Tail(existingLeft), latest, iter)
             ELSE CloseMissing(acc, Tail(existingLeft), latest, iter)

\* existingCollectionMints.filter((cm) => cm.tokenId)
WithTokenId(existing) == SelectSeq(existing, LAMBDA cm : Truthy(cm.tokenId))

\* The loop over the stored records that have a tokenId: one extraction per
\* such record; an extraction that rejects ends the refresh.
RECURSIVE RefreshLoop(_, _, _, _, _, _)
\* Mutant: the closing loop run before the upserts.
RefreshNextCloseFirst(ch, collection, existing, todo, acc, iter, latest) ==
    IF latest.err THEN [acc EXCEPT !.err = TRUE]
    ELSE RefreshLoop(ch, collection, existing, Tail(todo),
                     UpsertLatest(CloseMissing(acc, existing, latest.recs, iter),
                                  latest.recs, iter),
                     iter + 1)

\* latest is the outcome of the extraction for the first record of `todo`.
RefreshNext(ch, collection, existing, todo, acc, iter, latest) ==
    IF latest.err THEN [acc EXCEPT !.err = TRUE]
    ELSE RefreshLoop(ch, collection, existing, Tail(todo),
                     CloseMissing(UpsertLatest(acc, latest.recs, iter),
                                  existing, latest.recs, iter),
                     iter + 1)

RefreshLoop(ch, collection, existing, todo, acc, iter) ==
    IF todo = <<>> THEN acc
    ELSE RefreshNext(ch, collection, existing, todo,
                     [acc EXCEPT !.extracted = Append(acc.extracted, Head(todo).tokenId[1])],
                     iter,
                     extractByCollection(ch, collection, Head(todo).tokenId[1], None, None))

refreshByCollection(ch, st, collection) ==
    LET existingCollectionMints == getCollectionMints(st, collection)
    IN  RefreshLoop(ch, collection, existingCollectionMints,
                    WithTokenId(existingCollectionMints),
                    Progress(st, <<>>, <<>>, FALSE), 1)

(***************************************************************************)
(* Reconciliation as a state machine: mints are detected from transactions *)
(* and stored, the chain changes, the collection is refreshed.             *)
(***************************************************************************)
PublicClaim == Claim(HashZero, 0, 0, 0, 0, 100, Eth)
AllowlistClaim == Claim(MerkleRoot, 0, 0, 0, 0, 100, Eth)

\* The token ids and instance ids of the reconciliation runs
RefreshTokenIds == {1, 2}
RefreshInstanceIds == {1, 2}
RefreshTokenIdArgs == {ToString(t) : t \in RefreshTokenIds}

RefreshContracts ==
    {NoContract}
    \cup { Erc1155(t, id, PublicClaim, FeesOk[1], FeesOk[2]) :
            t \in RefreshTokenIds, id \in RefreshInstanceIds }
    \cup { Erc1155Two(1, 1, PublicClaim, 2, 2, PublicClaim, FeesOk[1], FeesOk[2]) }
    \cup { LazyV2(id, AllowlistClaim, FeesOk[1], FeesOk[2]) : id \in RefreshInstanceIds }

RefreshChains ==
    { Chain(exts, [a \in Extensions |-> IF a = "0xe1" THEN c1 ELSE NoContract], TRUE) :
        exts \in {Ok(<<"0xE1">>)}, c1 \in RefreshContracts }
    \cup { Chain(Fail, [a \in Extensions |-> NoContract], TRUE) }

RefreshTxs ==
    { [to |-> "0xE1", data |-> [selector |-> MintSelector, words |-> <<7, i, 0, 160, 7>>]] :
        i \in RefreshInstanceIds }

InitRefresh == chain \in RefreshChains /\ InitRest

\* The mint detector: a mint transaction is seen, its stage extracted and stored.
DetectMint ==
    /\ op = NoCall
    /\ \E tokenId \in RefreshTokenIdArgs, tx \in RefreshTxs :
        \E found \in {extractByTx(chain, Collection, tokenId, tx)} :
            /\ ~found.err
            /\ found.recs # <<>>
            /\ store' = simulateAndUpsertCollectionMint(store, found.recs[1])
            /\ store' # store
            /\ Len(store') <= MaxStored
    /\ prev' = None
    /\ UNCHANGED <<chain, op, now, cache, calls, fetches>>

\* The on-chain state changes.
ChainChange ==
    /\ op = NoCall
    /\ chain' \in RefreshChains \ {chain}
    /\ prev' = None
    /\ UNCHANGED <<store, op, now, cache, calls, fetches>>

\* res of a refresh: what it loaded, whether it follows a completed refresh
\* with nothing in between, and its outcome.
CallRefreshByCollection ==
    /\ op = NoCall
    /\ \E done \in {refreshByCollection(chain, store, Collection)} :
           /\ Len(done.store) <= MaxStored
           /\ store' = done.store
           /\ op' = Call("refreshByCollection", "", None, None, None,
                         [err |-> done.err, writes |-> done.writes,
                          extracted |-> done.extracted,
                          existing |-> getCollectionMints(store, Collection),
                          repeated |-> IsSome(prev)])
           /\ prev' = IF done.err THEN None ELSE Some(done.store)
    /\ UNCHANGED <<chain, now, cache, calls, fetches>>

NextRefresh == DetectMint \/ ChainChange \/ CallRefreshByCollection \/ Return

SpecRefresh == InitRefresh /\ [][NextRefresh]_vars

(***************************************************************************)
(* generateProofValue: the allow-list proof cache.                         *)
(*                                                                         *)
(* cache maps a redis key to [val, exp]: the stored string and the instant *)
(* at which redis drops the entry.  A call is a record of calls:           *)
(*   cm, address  its arguments,                                           *)
(*   at           the instant of its redis.get,                            *)
(*   prior        the calls that had returned when it started,             *)
(*   pc           "fetch" (awaiting the merkleInfo response), "set"        *)
(*                (awaiting redis.set) or "done",                          *)
(*   hit          redis.get answered with an entry,                        *)
(*   fetched      it sent a merkleInfo request,                            *)
(*   setAt        the instant of its redis.set, when it wrote,             *)
(*   result       the value it holds / returned, err: it rejected.         *)
(***************************************************************************)
MaxCalls == 3

\* The instants the clock visits
Instants == {0, 3599, 3600}

Claimers == {"0xa1", "0xa2"}

\* The stages proofs are asked for: one with a tokenId, one without
ProofMints ==
    { TokenAllowlistMint(Collection, "1", "0xe1", "1", AllowlistClaim, FeesOk[2].val,
                         TreeIdOf("1")),
      IndexAllowlistMint(Collection, "1", "0xe1", Some("1"),
                         ConfigV2(AllowlistClaim, FeesOk[1].val, FeesOk[2].val),
                         TreeIdOf("1")) }

\* An entry of the merkleInfo answer
ProofValue(merkleProof, value) == [merkleProof |-> merkleProof, value |-> value]

ProofFor(merkleTreeId, address) ==
    ProofValue(<<"proof-" \o merkleTreeId \o "-" \o address>>, "1")

ProofValues ==
    { ProofFor(cm.details.info[1].merkleTreeId, a) : cm \in ProofMints, a \in Claimers }

\* JSON.stringify / JSON.parse of a ProofValue
stringify(v) ==
    "{\"merkleProof\":[\"" \o v.merkleProof[1] \o "\"],\"value\":\"" \o v.value \o "\"}"

parse(s) == CHOOSE v \in ProofValues : stringify(v) = s

\* The merkleInfo request: the first entry of the answer, absent when the
\* answer is empty; the request may fail.
merkleInfo(ch, merkleTreeId, address) ==
    CASE ch.merkleInfo[address] = "entry" -> Ok(Some(ProofFor(merkleTreeId, address)))
      [] ch.merkleInfo[address] = "empty" -> Ok(None)
      [] OTHER -> Fail

cacheKey(collectionMint) ==
    collectionMint.collection \o "-" \o collectionMint.stage \o "-"
        \o Interpolate(collectionMint.tokenId)

\* redis.get(key) at instant t: an entry past its expiry is gone
redisGet(c, key, t) ==
    IF key \in DOMAIN c /\ t < c[key].exp THEN Some(c[key].val) ELSE None

\* Mutant: the lifetime given in milliseconds (PX instead of EX)
redisSetPx(c, key, val, t) ==
    (key :> [val |-> val, exp |-> t + (CacheTtl \div 1000)]) @@ c

\* redis.set(key, val, "EX", 3600) at instant t
redisSet(c, key, val, t) ==
    (key :> [val |-> val, exp |-> t + CacheTtl]) @@ c

\* response ? JSON.parse(response) : undefined
Cached(response) ==
    IF Truthy(response) THEN Some(parse(response[1])) ELSE None

ProofCall(cm, address, at, prior, pc, hit, fetched, setAt, result, err) ==
    [cm |-> cm, address |-> address, at |-> at, prior |-> prior, pc |-> pc,
     hit |-> hit, fetched |-> fetched, setAt |-> setAt, result |-> result,
     err |-> err]

Returned(cs) == { i \in DOMAIN cs : cs[i].pc = "done" }

\* The call up to the answer of redis.get
StartCall(c, cs, cm, address, t) ==
    IF IsSome(Cached(redisGet(c, cacheKey(cm), t)))
    THEN ProofCall(cm, address, t, Returned(cs), "done", TRUE, FALSE, None,
                   Cached(redisGet(c, cacheKey(cm), t)), FALSE)
    ELSE ProofCall(cm, address, t, Returned(cs), "fetch", FALSE, FALSE, None,
                   None, FALSE)

\* Mutant: a failed request taken for an empty answer
AnsweredSwallowsFailure(call, answer) ==
    IF answer.ok /\ IsSome(answer.val)
    THEN [call EXCEPT !.pc = "set", !.fetched = TRUE, !.result = answer.val]
    ELSE [call EXCEPT !.pc = "done", !.fetched = TRUE]

\* Mutant: the answer written back whether or not it holds an entry
AnsweredAlwaysStored(call, answer) ==
    IF ~answer.ok
    THEN [call EXCEPT !.pc = "done", !.fetched = TRUE, !.err = TRUE]
    ELSE [call EXCEPT !.pc = "set", !.fetched = TRUE,
                      !.result = IF IsSome(answer.val) THEN answer.val
                                 ELSE Some(ProofValue(<<"">>, ""))]

\* The call from the merkleInfo answer on
Answered(call, answer) ==
    IF ~answer.ok
    THEN [call EXCEPT !.pc = "done", !.fetched = TRUE, !.err = TRUE]
    ELSE IF IsSome(answer.val)
         THEN [call EXCEPT !.pc = "set", !.fetched = TRUE, !.result = answer.val]
         ELSE [call EXCEPT !.pc = "done", !.fetched = TRUE]

\* What the allow-list service answers to each address
ProofServices ==
    { s \in [Claimers -> {"entry", "empty", "fail"}] : s["0xa2"] # "fail" }

\* The calls made: (collectionMint, address)
ProofRequests ==
    { r \in ProofMints \X Claimers : Truthy(r[1].tokenId) \/ r[2] = "0xa1" }

InitProof ==
    /\ chain \in { [merkleInfo |-> s] : s \in ProofServices }
    /\ InitRest

\* generateProofValue is called: the key is built and redis.get answers
CallGenerateProofValue ==
    /\ Len(calls) < MaxCalls
    /\ \E request \in ProofRequests :
           calls' = Append(calls, StartCall(cache, calls, request[1], request[2], now))
    /\ UNCHANGED <<chain, store, op, prev, now, cache, fetches>>

\* The merkleInfo request of a call that missed is answered
AxiosGet ==
    /\ \E i \in DOMAIN calls :
           /\ calls[i].pc = "fetch"
           /\ calls' = [calls EXCEPT ![i] =
                  Answered(calls[i],
                           merkleInfo(chain, calls[i].cm.details.info[1].merkleTreeId,
                                      calls[i].address))]
    /\ fetches' = fetches + 1
    /\ UNCHANGED <<chain, store, op, prev, now, cache>>

\* The entry fetched is written back and the call returns
RedisSet ==
    /\ \E i \in DOMAIN calls :
           /\ calls[i].pc = "set"
           /\ cache' = redisSet(cache, cacheKey(calls[i].cm),
                                stringify(calls[i].result[1]), now)
           /\ calls' = [calls EXCEPT ![i].pc = "done", ![i].setAt = Some(now)]
    /\ UNCHANGED <<chain, store, op, prev, now, fetches>>

\* Time passes
Tick ==
    /\ \E t \in Instants : t > now /\ now' = t
    /\ UNCHANGED <<chain, store, op, prev, cache, calls, fetches>>

NextProof == CallGenerateProofValue \/ AxiosGet \/ RedisSet \/ Tick

SpecProof == InitProof /\ [][NextProof]_vars

(***************************************************************************)
(* Properties of the adapter (checked under SpecExtract).                  *)
(***************************************************************************)
\* The last call was an adapter call that returned a record.
Emitted ==
    /\ op.name \in {"extractByCollection", "extractByTx"}
    /\ ~op.res.err
    /\ op.res.recs # <<>>
EmittedRec == op.res.recs[1]
EmittedVia == op.res.via[1]

\* The on-chain claim the emitted record describes, read from the chain.
SourceClaim ==
    LET c == chain.c[EmittedVia.extension]
    IN  CASE EmittedVia.variant = "token" -> c.tok[EmittedVia.n].val.claim
          [] EmittedVia.variant = "v1" -> c.v1[EmittedVia.n].val
          [] EmittedVia.variant = "v2" -> c.v2[EmittedVia.n].val

\* The contract's fee for the sale kind of the emitted record, read from the chain.
SourceFee ==
    LET c == chain.c[EmittedVia.extension]
    IN  IF EmittedRec.kind = "public" THEN c.fee ELSE c.feeM

\* C4: every emitted record (per-token variant and both claim-index shapes)
\* has kind public exactly when the merkle root of its on-chain claim is the
\* zero hash and kind allowlist exactly when it is not; there is no other kind.
C4_KindFollowsMerkleRoot ==
    Emitted =>
        /\ EmittedRec.kind \in {"public", "allowlist"}
        /\ (EmittedRec.kind = "public") <=> (SourceClaim.merkleRoot = HashZero)
        /\ (EmittedRec.kind = "allowlist") <=> (SourceClaim.merkleRoot # HashZero)

\* C4 witness: an allow-list record built from the older claim-index shape.
C4_Witness ==
    /\ Emitted
    /\ EmittedVia.variant = "v1"
    /\ EmittedRec.kind = "allowlist"
    /\ SourceClaim.merkleRoot = MerkleRoot

\* C5 as stated: the price of every emitted record, whatever the variant, is
\* the on-chain cost plus the contract's fee for the sale kind, and is never
\* the bare cost.
C5_PriceIncludesFeeEveryVariant ==
    Emitted =>
        /\ SourceFee.ok
        /\ EmittedRec.price = ToString(SourceClaim.cost + SourceFee.val)
        /\ EmittedRec.price # ToString(SourceClaim.cost)

\* C5 amended: a record of the per-token variant or of the newer claim-index
\* shape has price = cost + the contract's fee for its kind (flat fee for
\* public, merkle fee for allowlist); a record built from the older
\* claim-index shape, which reads no fee, has price = cost.
C5_PriceIncludesFeeUnlessOlderShape ==
    Emitted =>
        /\ EmittedVia.variant \in {"token", "v2"} =>
              /\ SourceFee.ok
              /\ EmittedRec.price = ToString(SourceClaim.cost + SourceFee.val)
        /\ EmittedVia.variant = "v1" =>
              EmittedRec.price = ToString(SourceClaim.cost)

\* C5 witness: a public per-token record of cost 100 and flat fee 5 priced 105.
C5_Witness ==
    /\ Emitted
    /\ EmittedVia.variant = "token"
    /\ EmittedRec.kind = "public"
    /\ SourceClaim.cost = 100
    /\ SourceFee = Ok(5)
    /\ EmittedRec.price = "105"

C7_CapsNormalised ==
    Emitted =>
        /\ (EmittedRec.maxMintsPerWallet = None) <=> (SourceClaim.walletMax = 0)
        /\ SourceClaim.walletMax # 0 =>
              EmittedRec.maxMintsPerWallet = Some(ToString(SourceClaim.walletMax))
        /\ (EmittedRec.maxSupply = None) <=> (SourceClaim.totalMax = 0)
        /\ SourceClaim.totalMax # 0 =>
              EmittedRec.maxSupply = Some(ToString(SourceClaim.totalMax))
        /\ EmittedRec.maxMintsPerWallet # Some("0")
        /\ EmittedRec.maxSupply # Some("0")

\* C7 witness: walletMax 0 and totalMax 10 give an absent maxMintsPerWallet
\* and maxSupply "10".
C7_Witness ==
    /\ Emitted
    /\ SourceClaim.walletMax = 0
    /\ SourceClaim.totalMax = 10
    /\ EmittedRec.maxMintsPerWallet = None
    /\ EmittedRec.maxSupply = Some("10")

\* The input of tx is a mint or mintBatch call whose arguments decode.
DecodableMint(tx) ==
    \/ tx.data.selector = MintSelector /\ Len(tx.data.words) >= 5
    \/ tx.data.selector = MintBatchSelector /\ Len(tx.data.words) >= 6

\* C8: for a transaction whose input is a mint or mintBatch call with a
\* decodable instance id, extractByTx returns what extractByCollection
\* returns for (collection, tokenId, tx.to, that instance id) on the same chain.
C8_ByTxEqualsByCollection ==
    (op.name = "extractByTx" /\ DecodableMint(op.tx[1])) =>
        LET direct == extractByCollection(chain, Collection, op.tokenId,
                                          Some(op.tx[1].to),
                                          Some(ToString(op.tx[1].data.words[2])))
        IN  /\ op.res.err = direct.err
            /\ op.res.recs = direct.recs

\* C8 witness: extractByTx of a decodable mint of instance 2 returned the
\* record of claim index 2.
C8_Witness ==
    /\ op.name = "extractByTx"
    /\ DecodableMint(op.tx[1])
    /\ op.tx[1].data.selector = MintSelector
    /\ op.tx[1].data.words[2] = 2
    /\ Emitted
    /\ EmittedVia.variant \in {"v1", "v2"}
    /\ EmittedVia.n = 2

\* C9: extractByTx on an input that starts with neither known selector
\* returns no record, raises no error and sends no contract read and no
\* off-chain request.
C9_UnknownSelectorEmpty ==
    (op.name = "extractByTx" /\ op.tx[1].data.selector \notin {MintSelector, MintBatchSelector}) =>
        /\ ~op.res.err
        /\ op.res.recs = <<>>
        /\ op.res.io = <<>>

\* C9 witness: another function's call sent to an extension that holds a
\* claim for the token gave nothing.
C9_Witness ==
    /\ op.name = "extractByTx"
    /\ op.tx[1].data.selector = "0xa9059cbb"
    /\ extractByCollection(chain, Collection, op.tokenId, Some(op.tx[1].to), None).recs # <<>>
    /\ op.res.recs = <<>>

(***************************************************************************)
(* Properties of reconciliation (checked under SpecRefresh).               *)
(***************************************************************************)
\* The last call was a refreshByCollection that completed.
Refreshed == op.name = "refreshByCollection" /\ ~op.res.err

\* No extraction, whatever its arguments, returns the triple of e on the
\* present chain (whose extension list can be read).
Gone(e) ==
    /\ chain.exts.ok
    /\ \A tokenId \in TokenIdArgs, extension \in ExtensionArgs, claimIndex \in ClaimIndexArgs :
          \A rec \in { extractByCollection(chain, Collection, tokenId, extension,
                                           claimIndex) } :
              \A k \in DOMAIN rec.recs : ~SameMint(rec.recs[k], e)

\* The closing writes of the last refresh for the key of e
ClosingWrites(e) ==
    { k \in DOMAIN op.res.writes :
        /\ op.res.writes[k].closing
        /\ op.res.writes[k].cm.status = "closed"
        /\ SameMint(op.res.writes[k].cm, e) }

\* C1: after refreshByCollection completes, every previously stored record
\* whose (collection, stage, tokenId) is in no fresh extraction result has
\* been written through simulateAndUpsertCollectionMint with status closed.
C1_GoneRecordsClosed ==
    Refreshed =>
        \A k \in DOMAIN op.res.existing :
            Gone(op.res.existing[k]) => ClosingWrites(op.res.existing[k]) # {}

\* C2: a refreshByCollection that follows a completed one, with no change
\* of the chain in between, performs no write and leaves the stored records
\* as the first call left them.
C2_SecondRefreshWritesNothing ==
    (Refreshed /\ op.res.repeated) =>
        /\ op.res.writes = <<>>
        /\ store = op.res.existing

\* C3: in one refreshByCollection run each previously stored record absent
\* from the fresh extraction is closed by exactly one closing write, and a
\* record is written open only if its stage is in an extraction result of
\* the run.
C3_ClosedExactlyOnce ==
    Refreshed =>
        /\ \A k \in DOMAIN op.res.existing :
              Gone(op.res.existing[k]) =>
                  Cardinality(ClosingWrites(op.res.existing[k])) = 1
        /\ \A k \in DOMAIN op.res.writes :
              op.res.writes[k].cm.status = "open" =>
                  \E j \in DOMAIN op.res.extracted :
                      \E rec \in { extractByCollection(chain, Collection,
                                                       op.res.extracted[j], None, None) } :
                          \E i \in DOMAIN rec.recs :
                              rec.recs[i].stage = op.res.writes[k].cm.stage

(***************************************************************************)
(* Properties of the proof cache (SpecProof)                               *)
(***************************************************************************)
\* Call j is a second call for the key of call i: i had returned when j
\* started, and j started less than the lifetime of an entry after i did.
SecondCallWithinTtl(i, j) ==
    /\ i \in calls[j].prior
    /\ cacheKey(calls[i].cm) = cacheKey(calls[j].cm)
    /\ calls[j].at - calls[i].at < CacheTtl

\* Every entry written under the key of call j before it started (a call
\* writes as it returns) had expired when j started
AllExpiredFor(j) ==
    \A i \in calls[j].prior :
        (cacheKey(calls[i].cm) = cacheKey(calls[j].cm) /\ IsSome(calls[i].setAt))
            => calls[i].setAt[1] + CacheTtl <= calls[j].at

\* What the calls before j have written under its key
WrittenBefore(j) ==
    { calls[i].result : i \in { k \in calls[j].prior :
                                   /\ cacheKey(calls[k].cm) = cacheKey(calls[j].cm)
                                   /\ IsSome(calls[k].setAt) } }

FreshFetch(j) == ~calls[j].hit /\ (calls[j].pc = "fetch" \/ calls[j].fetched)

\* C10 (as claimed): a second generateProofValue call for the same
\* (collection, stage, tokenId) within 3600 seconds of the first returns the
\* cached value and sends no merkleInfo request; a call made after the
\* entry's lifetime has run out sends a fresh merkleInfo request.
C10_SecondCallWithinTtlHits ==
    \A j \in DOMAIN calls :
        /\ \A i \in DOMAIN calls :
               SecondCallWithinTtl(i, j)
                   => /\ calls[j].hit
                      /\ ~calls[j].fetched
                      /\ calls[j].pc = "done"
                      /\ calls[j].result \in WrittenBefore(j)
        /\ AllExpiredFor(j) => FreshFetch(j)

\* C10 (amended): the second call hits when the first call wrote an entry,
\* that is when its merkleInfo request returned one; a first call that found
\* no entry for its address, or whose request failed, writes nothing and the
\* second call fetches again.  After the lifetime of every entry written
\* under the key, a call sends a fresh merkleInfo request.
C10_SecondCallHitsWhenFirstStored ==
    \A j \in DOMAIN calls :
        /\ \A i \in DOMAIN calls :
               (SecondCallWithinTtl(i, j) /\ IsSome(calls[i].setAt))
                   => /\ calls[j].hit
                      /\ ~calls[j].fetched
                      /\ calls[j].pc = "done"
                      /\ calls[j].result \in WrittenBefore(j)
        /\ AllExpiredFor(j) => FreshFetch(j)

\* A second call within the lifetime hit the entry the first one wrote, and
\* a call after the lifetime fetched again.
C10_Witness ==
    \E i, j, k \in DOMAIN calls :
        /\ SecondCallWithinTtl(i, j)
        /\ IsSome(calls[i].setAt)
        /\ calls[j].at > calls[i].setAt[1]
        /\ calls[j].hit
        /\ calls[j].result = calls[i].result
        /\ cacheKey(calls[k].cm) = cacheKey(calls[i].cm)
        /\ calls[k].at >= calls[i].setAt[1] + CacheTtl
        /\ calls[k].fetched
        /\ fetches = 2

\* The entry the allow-list service returns for the address of call j
ServiceEntryFor(j) ==
    merkleInfo(chain, calls[j].cm.details.info[1].merkleTreeId, calls[j].address)

ReturnedValue(j) ==
    calls[j].pc = "done" /\ ~calls[j].err /\ IsSome(calls[j].result)

\* C11: whenever generateProofValue(collectionMint, address) returns a value,
\* that value is the entry the allow-list service returns for that same
\* address, whichever other addresses have resolved the same
\* (collection, stage, tokenId) before or concurrently.
C11_ReturnedProofIsForCaller ==
    \A j \in DOMAIN calls :
        ReturnedValue(j)
            => /\ ServiceEntryFor(j).ok
               /\ calls[j].result = ServiceEntryFor(j).val

\* Call i missed and the allow-list service answered with no entry
EmptyAnswer(i) ==
    /\ calls[i].fetched
    /\ ServiceEntryFor(i).ok
    /\ ~IsSome(ServiceEntryFor(i).val)

\* C12: a call that misses the cache and is answered with no entry for the
\* address returns absent without an error and writes nothing to the cache,
\* so a later call for the same key, with no entry written under the key
\* by another call in between, sends a merkleInfo request again.
C12_EmptyAnswerNotCached ==
    \A i \in DOMAIN calls :
        EmptyAnswer(i)
            => /\ calls[i].pc = "done"
               /\ ~calls[i].err
               /\ calls[i].result = None
               /\ calls[i].setAt = None
               /\ \A j \in DOMAIN calls :
                      (/\ i \in calls[j].prior
                       /\ cacheKey(calls[j].cm) = cacheKey(calls[i].cm)
                       /\ AllExpiredFor(j))
                          => FreshFetch(j)

\* A call was answered with no entry and the next call for its key, by the
\* same address, fetched again: two requests, nothing in the cache.
C12_Witness ==
    \E i, j \in DOMAIN calls :
        /\ EmptyAnswer(i)
        /\ i \in calls[j].prior
        /\ cacheKey(calls[j].cm) = cacheKey(calls[i].cm)
        /\ calls[j].address = calls[i].address
        /\ calls[j].fetched
        /\ calls[j].pc = "done"
        /\ fetches = 2
        /\ cache = NoCache

(***************************************************************************)
(* Properties of the scan over the extensions (SpecExtract)                *)
(***************************************************************************)
\* The last call was extractByCollection without an extension hint
Discovery == op.name = "extractByCollection" /\ ~Truthy(op.extension)

\* The extensions the last extractByCollection call had to scan: the hinted
\* one, or those registered on the collection (any of them when the
\* enumeration did not answer).
Scanned ==
    IF Truthy(op.extension) THEN {op.extension[1]}
    ELSE IF chain.exts.ok THEN {chain.exts.val[k] : k \in DOMAIN chain.exts.val}
    ELSE Addresses

\* The per-token claim of tokenId on the extension is a valid native-currency claim
TokenClaimValid(ch, tokenId, extension) ==
    LET result == ContractAt(ch, extension).tok[ParseUint(Some(tokenId)).val]
    IN  /\ result.ok
        /\ result.val.instanceId # 0
        /\ toLowerCase(result.val.claim.erc20) = Eth

\* The extension holds a claim at claimIndex, in either shape
IndexClaimValid(ch, extension, claimIndex) ==
    /\ ParseUint(claimIndex).ok
    /\ \/ ContractAt(ch, extension).v1[ParseUint(claimIndex).val].ok
       \/ ContractAt(ch, extension).v2[ParseUint(claimIndex).val].ok

\* C13: in discovery mode the ladder runs on every registered extension: a
\* match ends the ladder for that extension only, and each extension holding
\* a valid claim contributes its record to the returned sequence.
C13_EveryExtensionContributes ==
    (Discovery /\ ~op.res.err /\ chain.exts.ok)
        => \A k \in DOMAIN chain.exts.val :
               TryExtension(chain, Collection, op.tokenId, chain.exts.val[k],
                            op.claimIndex).out = "return"
                   => \E i \in DOMAIN op.res.recs :
                          op.res.recs[i] =
                              TryExtension(chain, Collection, op.tokenId,
                                           chain.exts.val[k], op.claimIndex).rec[1]

\* C14: no failure of a contract read (extension enumeration, claim data,
\* fee constants) makes extractByCollection fail; with the off-chain instance
\* data answering, every call resolves.
C14_ReadFailuresSwallowed ==
    (op.name = "extractByCollection" /\ chain.meta) => ~op.res.err

\* C15: a failure of the instance data request (the merkle tree id lookup)
\* of an allow-list stage rejects the extractByCollection call, in the
\* per-token variant as in the claim-index variant.
C15_MetadataFailurePropagates ==
    (/\ op.name = "extractByCollection"
     /\ ~chain.meta
     /\ \E k \in DOMAIN op.res.io : op.res.io[k].call = "fetchMetadata")
        => op.res.err

\* C16: every record returned carries the status and the reason the status
\* resolver gives for it.
C16_StatusFromResolver ==
    (op.name = "extractByCollection" /\ ~op.res.err)
        => \A i \in DOMAIN op.res.recs :
               /\ op.res.recs[i].status = getStatus(chain, op.res.recs[i]).status
               /\ op.res.recs[i].statusReason = getStatus(chain, op.res.recs[i]).reason

\* C17: when no extension yields a valid claim in any variant,
\* extractByCollection returns an empty sequence and does not reject.
C17_NoClaimNoRecordNoError ==
    (/\ op.name = "extractByCollection"
     /\ \A e \in Scanned :
            /\ ~TokenClaimValid(chain, op.tokenId, e)
            /\ ~IndexClaimValid(chain, e, op.claimIndex))
        => (op.res.recs = <<>> /\ ~op.res.err)

\* C18: an emitted record has a tokenId exactly when the per-token variant
\* produced it; the records of the claim-index variant, public or
\* allow-list, have none.
C18_TokenIdOnlyPerToken ==
    Emitted => (IsSome(EmittedRec.tokenId) <=> EmittedVia.variant = "token")

(***************************************************************************)
(* Properties of the record fields (SpecExtract)                           *)
(***************************************************************************)
\* The record kept from an earlier call and the one just returned describe
\* the same on-chain claim: same extension, same instance id / claim index.
SameClaim(a, b) == a.extension = b.extension /\ a.n = b.n

C20_AllowlistIdIsMerkleRoot ==
    Emitted =>
        /\ IsSome(EmittedRec.allowlistId) <=> EmittedRec.kind = "allowlist"
        /\ EmittedRec.kind = "allowlist"
              => EmittedRec.allowlistId = Some(SourceClaim.merkleRoot)
        /\ EmittedRec.kind = "public" => EmittedRec.allowlistId = None

\* An allow-list record of the newer claim-index shape with its merkle root
C20_Witness ==
    /\ Emitted
    /\ EmittedVia.variant = "v2"
    /\ EmittedRec.kind = "allowlist"
    /\ EmittedRec.allowlistId = Some(MerkleRoot)
    /\ SourceClaim.merkleRoot = MerkleRoot

(***************************************************************************)
(* Further properties of reconciliation (SpecRefresh)                      *)
(***************************************************************************)
\* The stored record e is still returned by the extraction for its own tokenId
StillLive(e) ==
    /\ Truthy(e.tokenId)
    /\ \E rec \in { extractByCollection(chain, Collection, e.tokenId[1], None, None) } :
           /\ ~rec.err
           /\ \E i \in DOMAIN rec.recs : SameMint(rec.recs[i], e)

\* C21: refreshByCollection never writes status closed for a stored record
\* whose stage the extraction for the record's own tokenId still returns:
\* stored records of different tokenIds that are all live stay open.
C21_LiveRecordsStayOpen ==
    Refreshed =>
        \A k \in DOMAIN op.res.existing :
            StillLive(op.res.existing[k])
                => /\ ClosingWrites(op.res.existing[k]) = {}
                   /\ \E i \in DOMAIN store :
                          /\ SameMint(store[i], op.res.existing[k])
                          /\ store[i].status = "open"

(***************************************************************************)
(* Further properties of the adapter (SpecExtract)                         *)
(***************************************************************************)
\* A finished extractByCollection call on one given extension
HintedCall == op.name = "extractByCollection" /\ IsSome(op.extension)
HintedExtension == toLowerCase(op.extension[1])

\* The call did not end in the per-token variant, so the claim-index variant ran.
IndexVariantRan == HintedCall /\ ~(Emitted /\ EmittedVia.variant = "token")

\* The number of requests `call` sent to the hinted extension
Requests(call) ==
    Cardinality({ k \in DOMAIN op.res.io : op.res.io[k] = Io(call, HintedExtension) })

\* Position k of the requests is the newer shape's fee pair, the last read
\* of the claim-index variant.
FeePairAt(k) ==
    /\ k \in DOMAIN op.res.io /\ k + 1 \in DOMAIN op.res.io
    /\ op.res.io[k] = Io("MINT_FEE", HintedExtension)
    /\ op.res.io[k + 1] = Io("MINT_FEE_MERKLE", HintedExtension)

\* Whether each shape's reads succeed on chain for the hinted claim index
OlderSucceeds ==
    /\ ParseUint(op.claimIndex).ok
    /\ chain.c[HintedExtension].v1[ParseUint(op.claimIndex).val].ok
NewerSucceeds ==
    /\ ParseUint(op.claimIndex).ok
    /\ chain.c[HintedExtension].v2[ParseUint(op.claimIndex).val].ok
    /\ chain.c[HintedExtension].fee.ok
    /\ chain.c[HintedExtension].feeM.ok

\* C22: in the claim-index variant the older shape's getClaim is sent only
\* when a claimIndex is supplied; the newer shape's reads are sent in every
\* case, after it; a record comes out only with a claimIndex; when both
\* shapes succeed the record's price is the newer shape's cost plus the fee
\* of its kind, and when only the older succeeds it is the older shape's cost.
C22_NewerShapeTakesPrecedence ==
    IndexVariantRan =>
        /\ \E k \in DOMAIN op.res.io : FeePairAt(k)
        /\ Requests("getClaim") = IF IsSome(op.claimIndex) THEN 2 ELSE 0
        /\ \A k \in DOMAIN op.res.io :
               FeePairAt(k) /\ IsSome(op.claimIndex) =>
                   /\ k > 2
                   /\ op.res.io[k - 1] = Io("getClaim", HintedExtension)
                   /\ op.res.io[k - 2] = Io("getClaim", HintedExtension)
        /\ Emitted => IsSome(op.claimIndex) /\ (OlderSucceeds \/ NewerSucceeds)
        /\ Emitted /\ NewerSucceeds =>
               /\ EmittedVia.variant = "v2"
               /\ EmittedRec.price = ToString(SourceClaim.cost + SourceFee.val)
        /\ Emitted /\ OlderSucceeds /\ ~NewerSucceeds =>
               /\ EmittedVia.variant = "v1"
               /\ EmittedRec.price = ToString(SourceClaim.cost)

\* C22 witness: both shapes decode claim index 1 (cost 100, flat fee 5) and
\* the public record is priced 105, from the newer shape.
C22_Witness ==
    /\ IndexVariantRan
    /\ Emitted
    /\ OlderSucceeds
    /\ NewerSucceeds
    /\ EmittedRec.kind = "public"
    /\ SourceFee = Ok(5)
    /\ EmittedRec.price = "105"

\* The slots of the emitted template, and their roles in order
EmittedParams == EmittedRec.details.tx.params
SlotKinds == [k \in DOMAIN EmittedParams |-> EmittedParams[k].kind]

\* C23: every emitted template has the six slots contract, id, quantity,
\* indices, proofs, recipient in that order; the id slot has role unknown and
\* holds the id that ends the record's stage; the indices and proofs slots
\* have role unknown and the empty list exactly when kind = public, and role
\* allowlist and no value exactly when kind = allowlist; details.info with
\* its merkleTreeId is present exactly when kind = allowlist.
C23_TemplateSlots ==
    Emitted =>
        /\ Len(EmittedParams) = 6
        /\ [k \in 1..6 |-> EmittedParams[k].abiType]
             = <<"address", "uint256", "uint16", "uint32[]", "bytes32[][]", "address">>
        /\ SlotKinds[1] = "contract" /\ SlotKinds[3] = "quantity"
        /\ SlotKinds[6] = "recipient"
        /\ \A k \in {1, 3, 6} : EmittedParams[k].abiValue = None
        /\ SlotKinds[2] = "unknown"
        /\ IsSome(EmittedParams[2].abiValue)
        /\ EmittedRec.stage
             = "claim-" \o EmittedVia.extension \o "-" \o EmittedParams[2].abiValue[1]
        /\ (EmittedRec.kind = "public")
             <=> \A k \in {4, 5} : /\ SlotKinds[k] = "unknown"
                                   /\ EmittedParams[k].abiValue = Some("[]")
        /\ (EmittedRec.kind = "allowlist")
             <=> \A k \in {4, 5} : /\ SlotKinds[k] = "allowlist"
                                   /\ EmittedParams[k].abiValue = None
        /\ (EmittedRec.kind = "allowlist") <=> IsSome(EmittedRec.details.info)
        /\ IsSome(EmittedRec.details.info)
             => "merkleTreeId" \in DOMAIN EmittedRec.details.info[1]

\* C23 witness: an allow-list record of the claim-index variant for claim
\* index 2, with allowlist-role indices and proofs and a merkleTreeId.
C23_Witness ==
    /\ Emitted
    /\ EmittedVia.variant \in {"v1", "v2"}
    /\ EmittedRec.kind = "allowlist"
    /\ EmittedParams[2].abiValue = Some("2")
    /\ SlotKinds = <<"contract", "unknown", "quantity", "allowlist", "allowlist", "recipient">>
    /\ EmittedRec.details.info = Some([merkleTreeId |-> TreeIdOf("2")])

\* The arguments of a known selector's call that do not decode: the data
\* ends before the head of the signature does.
TxOf == op.tx[1]
Undecodable(data) ==
    \/ data.selector = MintSelector /\ Len(data.words) < HeadWords("mint")
    \/ data.selector = MintBatchSelector /\ Len(data.words) < HeadWords("mintBatch")

\* C24: when tx.data starts with a known selector but its arguments do not
\* decode, extractByTx raises no error and returns what extractByCollection
\* returns for tx.to as the extension and no claim index.
C24_DecodeFailureSwallowed ==
    op.name = "extractByTx" /\ Undecodable(TxOf.data) =>
        /\ ~op.res.err
        /\ op.res = extractByCollection(chain, Collection, op.tokenId, Some(TxOf.to), None)
        /\ \A k \in DOMAIN op.res.io :
               /\ op.res.io[k].call # "getExtensions"
               /\ op.res.io[k].call # "getClaim"
               /\ op.res.io[k].call # "fetchMetadata"
                      => op.res.io[k].to = toLowerCase(TxOf.to)
        /\ Emitted => EmittedVia.variant = "token"

\* C24 witness: a truncated mintBatch call to 0xE1, where the token has a
\* per-token claim: the record of the per-token variant comes back.
C24_Witness ==
    /\ op.name = "extractByTx"
    /\ TxOf.data.selector = MintBatchSelector
    /\ Undecodable(TxOf.data)
    /\ Emitted
    /\ EmittedVia.variant = "token"
    /\ EmittedVia.extension = toLowerCase(TxOf.to)

(***************************************************************************)
(* Further properties of the proof cache (SpecProof)                       *)
(***************************************************************************)
\* Calls i < j missed on the same key concurrently (j started before i
\* returned) and both have written their entry back.
ConcurrentWrites(i, j) ==
    /\ i < j
    /\ cacheKey(calls[i].cm) = cacheKey(calls[j].cm)
    /\ ~calls[i].hit /\ ~calls[j].hit
    /\ i \notin calls[j].prior
    /\ IsSome(calls[i].setAt) /\ IsSome(calls[j].setAt)

\* C25: when two calls miss concurrently on the same cache key and both
\* write, the two values written are the same, so the entry left in the
\* cache is the same whichever write came last.
C25_ConcurrentWritesEquivalent ==
    \A i, j \in DOMAIN calls :
        ConcurrentWrites(i, j) =>
            /\ calls[i].result = calls[j].result
            /\ stringify(calls[i].result[1]) = stringify(calls[j].result[1])

\* The allow-list service fails on the request of call i
ServiceFails(i) == chain.merkleInfo[calls[i].address] = "fail"

\* A call whose request failed has rejected, holds no value and wrote nothing.
FailedCallsReject ==
    \A i \in DOMAIN calls :
        ServiceFails(i) /\ calls[i].fetched =>
            /\ calls[i].pc = "done"
            /\ calls[i].err
            /\ calls[i].result = None
            /\ calls[i].setAt = None

\* The step in which the request of a call fails leaves the cache as it was.
FailureKeepsCache ==
    \A i \in DOMAIN calls :
        ServiceFails(i) /\ calls[i].pc = "fetch" /\ calls'[i].pc # "fetch" =>
            /\ cache' = cache
            /\ calls'[i].err

\* C26: a failure of the allow-list service on a cache miss is propagated to
\* the caller (the call rejects) and leaves the cache unchanged: the failed
\* call writes no entry for the key.
C26_ServiceFailurePropagates ==
    []FailedCallsReject /\ [][FailureKeepsCache]_vars

\* C26 witness: a call missed, its request failed, it rejected and the cache
\* holds nothing under its key.
C26_Witness ==
    \E i \in DOMAIN calls :
        /\ ServiceFails(i)
        /\ calls[i].fetched
        /\ calls[i].err
        /\ cacheKey(calls[i].cm) \notin DOMAIN cache

\* The last call was a refreshByCollection, completed or not.
RefreshRan == op.name = "refreshByCollection"

\* Record cm is record e with nothing but its status replaced by closed.
OnlyStatusClosed(cm, e) ==
    /\ DOMAIN cm = DOMAIN e
    /\ cm.status = "closed"
    /\ \A f \in DOMAIN e \ {"status"} : cm[f] = e[f]

\* C27: every closing write of refreshByCollection passes a record the run
\* loaded from the store with only its status replaced by closed (collection,
\* stage, tokenId, kind, price, details and every other field as loaded),
\* and no record the run loaded is missing from the store afterwards.
C27_ClosingWriteChangesStatusOnly ==
    RefreshRan =>
        /\ \A k \in DOMAIN op.res.writes :
               op.res.writes[k].closing =>
                   \E j \in DOMAIN op.res.existing :
                       OnlyStatusClosed(op.res.writes[k].cm, op.res.existing[j])
        /\ Len(store) >= Len(op.res.existing)
        /\ \A j \in DOMAIN op.res.existing :
               \E i \in DOMAIN store : SameMint(store[i], op.res.existing[j])

\* C27 witness: a stored open public record priced 105 whose stage is gone
\* was written closed and is still in the store, closed and priced 105.
C27_Witness ==
    /\ Refreshed
    /\ \E j \in DOMAIN op.res.existing :
           /\ op.res.existing[j].status = "open"
           /\ op.res.existing[j].price = "105"
           /\ Gone(op.res.existing[j])
           /\ ClosingWrites(op.res.existing[j]) # {}
           /\ \E i \in DOMAIN store :
                  OnlyStatusClosed(store[i], op.res.existing[j])

\* The tokenIds of the records a refresh loaded
StoredTokenIds ==
    { op.res.existing[k].tokenId[1] :
        k \in { j \in DOMAIN op.res.existing : Truthy(op.res.existing[j].tokenId) } }

\* C28: one completed refreshByCollection run calls extractByCollection
\* exactly once for each distinct tokenId among the stored records, also
\* when several stored records share a tokenId, one tokenId after another
\* (the writes of an iteration all precede those of the next).
C28_OneExtractionPerTokenId ==
    Refreshed =>
        /\ { op.res.extracted[j] : j \in DOMAIN op.res.extracted } = StoredTokenIds
        /\ \A i, j \in DOMAIN op.res.extracted :
               op.res.extracted[i] = op.res.extracted[j] => i = j
        /\ \A i, j \in DOMAIN op.res.writes :
               i < j => op.res.writes[i].iter <= op.res.writes[j].iter

\* The writes of iteration n of the last refresh, in the order issued
WritesOf(n) == SelectSeq(op.res.writes, LAMBDA w : w.iter = n)

\* The records iteration n upserted, in the order issued
UpsertsOf(n) ==
    LET ws == SelectSeq(WritesOf(n), LAMBDA w : ~w.closing)
    IN  [k \in DOMAIN ws |-> ws[k].cm]

\* What the extraction of iteration n returned
ExtractionOf(n) ==
    extractByCollection(chain, Collection, op.res.extracted[n], None, None)

\* C29: in a refreshByCollection run every record an extraction returns is
\* passed unchanged to simulateAndUpsertCollectionMint exactly once for that
\* extraction, and these upserts all come before any closing write of the
\* same iteration.
C29_UpsertsBeforeClosing ==
    Refreshed =>
        \A n \in DOMAIN op.res.extracted :
            /\ UpsertsOf(n) = ExtractionOf(n).recs
            /\ \A i, j \in DOMAIN WritesOf(n) :
                   WritesOf(n)[i].closing /\ ~WritesOf(n)[j].closing => j < i

\* C29 witness: an iteration that upserted the record its extraction
\* returned and then closed another stored record.
C29_Witness ==
    /\ Refreshed
    /\ \E n \in DOMAIN op.res.extracted :
           /\ Len(ExtractionOf(n).recs) = 1
           /\ Len(WritesOf(n)) = 2
           /\ WritesOf(n)[1] = Write(ExtractionOf(n).recs[1], FALSE, n)
           /\ WritesOf(n)[2].closing

(***************************************************************************)
(* The order of the requests of a scan (SpecExtract)                       *)
(***************************************************************************)
\* The fallback ladder of the p-th extension of the collection, run for the
\* arguments of the last call
LadderOf(p) ==
    TryExtension(chain, Collection, op.tokenId, chain.exts.val[p], op.claimIndex)

\* The extensions the scan gets to: all before them fell through.
Reached == { p \in DOMAIN chain.exts.val : \A q \in 1..(p - 1) : LadderOf(q).out = "next" }

\* The requests of the ladders of extensions 1..p, one ladder after another
RECURSIVE LaddersIo(_)
LaddersIo(p) == IF p = 0 THEN <<>> ELSE LaddersIo(p - 1) \o LadderOf(p).io

\* The contract reads among the requests of the last call
ContractReads ==
    SelectSeq(op.res.io, LAMBDA r : r.call \notin {"getExtensions", "fetchMetadata"})

\* The place of an address in the extension list
PlaceOf(a) == CHOOSE p \in DOMAIN chain.exts.val : toLowerCase(chain.exts.val[p]) = a

HintedContract == chain.c[HintedExtension]

\* The per-token claim the call reads, when the read answers
HintedTokenClaim == HintedContract.tok[ParseUint(Some(op.tokenId)).val].val.claim

\* C31 as stated: in every attempt the claim read and both fee reads are
\* issued together, and a record comes out only when all of them succeed.
C31_AllReadsJointInEveryAttempt ==
    (HintedCall /\ Emitted) =>
        /\ HintedContract.fee.ok
        /\ HintedContract.feeM.ok
        /\ Requests("MINT_FEE") >= 1
        /\ Requests("MINT_FEE_MERKLE") >= 1

\* C31 amended: only the newer claim-index shape issues its claim read and
\* both fee reads together (all three are requested even when one fails)
\* and yields a record only when all three succeed; when one fails, a
\* record can only come from the older shape, with the bare cost as price.
\* The per-token attempt reads the claim first and then only the fee of the
\* sale kind: it yields its record whenever those two (and, for an
\* allow-list, the instance data) succeed, whatever the other fee read
\* would answer.
C31_JointReadsInNewerShapeOnly ==
    HintedCall =>
        /\ (Emitted /\ EmittedVia.variant = "token") =>
               /\ SourceFee.ok
               /\ op.res.io[1] = Io("getClaimForToken", HintedExtension)
               /\ op.res.io[2] = Io(IF EmittedRec.kind = "public" THEN "MINT_FEE"
                                    ELSE "MINT_FEE_MERKLE", HintedExtension)
               /\ Requests("MINT_FEE") + Requests("MINT_FEE_MERKLE") = 1
        /\ ( /\ TokenClaimValid(chain, op.tokenId, op.extension[1])
             /\ IF HintedTokenClaim.merkleRoot = HashZero
                THEN HintedContract.fee.ok
                ELSE HintedContract.feeM.ok /\ chain.meta )
               => Emitted /\ EmittedVia.variant = "token"
        /\ (IndexVariantRan /\ IsSome(op.claimIndex)) =>
               \E k \in DOMAIN op.res.io :
                   /\ FeePairAt(k)
                   /\ k > 1
                   /\ op.res.io[k - 1] = Io("getClaim", HintedExtension)
        /\ (Emitted /\ EmittedVia.variant = "v2") => NewerSucceeds
        /\ (IndexVariantRan /\ Emitted /\ ~NewerSucceeds) =>
               /\ EmittedVia.variant = "v1"
               /\ EmittedRec.price = ToString(SourceClaim.cost)

\* C31 witness: a public per-token record priced 105 from a contract whose
\* MINT_FEE_MERKLE read fails and was never requested.
C31_Witness ==
    /\ HintedCall
    /\ Emitted
    /\ EmittedVia.variant = "token"
    /\ EmittedRec.kind = "public"
    /\ ~HintedContract.feeM.ok
    /\ Requests("MINT_FEE_MERKLE") = 0
    /\ EmittedRec.price = "105"

\* The payment token of the on-chain claim the emitted record describes; the
\* older claim-index shape has no such field and is paid in the native asset.
SourceErc20 ==
    IF EmittedVia.variant = "v1" THEN Eth ELSE toLowerCase(SourceClaim.erc20)

\* C32: every emitted record has the native asset as currency and describes
\* an on-chain claim whose erc20 field is the native-asset sentinel: a claim
\* priced in an ERC20 token is never emitted, in any variant.
C32_OnlyNativeClaimsEmitted ==
    Emitted =>
        /\ EmittedRec.currency = Eth
        /\ SourceErc20 = Eth

\* C33: when every stored record of the collection lacks a tokenId,
\* refreshByCollection still reconciles: a stored open record whose claim has
\* disappeared on-chain is written closed and ends closed in the store.
C33_RecordsWithoutTokenIdReconciled ==
    ( /\ Refreshed
      /\ \A k \in DOMAIN op.res.existing : ~Truthy(op.res.existing[k].tokenId) ) =>
        \A k \in DOMAIN op.res.existing :
            (op.res.existing[k].status = "open" /\ Gone(op.res.existing[k])) =>
                /\ ClosingWrites(op.res.existing[k]) # {}
                /\ \E i \in DOMAIN store :
                       /\ SameMint(store[i], op.res.existing[k])
                       /\ store[i].status = "closed"

====
